---- MODULE Spec2Model ----
(***************************************************************************)
(* Local Deploy Manager (LDM): deploy history, deploy pipeline and the     *)
(* backup/restore engine, modelled as state machines.                      *)
(*                                                                         *)
(*   SpecHistory : HistoryManager.add_deploy / cleanup_old_entries         *)
(*   SpecDeploy  : the `deploy` command of cli.py, one action per stage    *)
(*   SpecBackup  : BackupManager.create_backup (one action per step),      *)
(*                 list_backups, restore_backup, delete_backup             *)
(*   SpecRetention : BackupManager.cleanup_old_backups on the directories  *)
(*                 earlier calls left                                      *)
(*   SpecPorts   : PortManager.check_and_suggest_ports and                 *)
(*                 suggest_alternative_port                                *)
(*   SpecHealth  : DockerManager.wait_for_healthy, one action per step of  *)
(*                 its polling loop                                        *)
(*   SpecProject : the `init` and `destroy` commands of cli.py, each one   *)
(*                 action                                                  *)
(***************************************************************************)
EXTENDS Integers, Sequences, FiniteSets, TLC

VARIABLES
    now,        \* the instant datetime.now() returns next: every read is
                \* later than the one before
    second,     \* the wall-clock second that instant lies in
    history,    \* content of deploy-history.json: a sequence of entries
    histRet,    \* what the last history call did and returned
    pc,         \* position of the deploy command
    opts,       \* the flags of the running deploy command
    env,        \* the active project on disk as deploy sees it
    cfg,        \* persisted .project-config.json (ProjectState)
    loc,        \* local variables of the deploy function
    executed,   \* the stages this run has executed, in order
    run,        \* values captured when the run started, and its outcome
    fs,         \* project tree and restore target on disk
    snaps,      \* the snapshot directories under backups/
    cb,         \* frame of the running create_backup call
    calls,      \* number of backup commands started that change the disk
    ret,        \* what the last backup-engine call did and returned
    pm,         \* the last PortManager call: its arguments and its result
    hw,         \* frame of the running wait_for_healthy call
    prj        \* the last init or destroy command and what it did

vars == <<now, second, history, histRet, pc, opts, env, cfg, loc, executed, run,
          fs, snaps, cb, calls, ret, pm, hw, prj>>

histVars   == <<history, histRet>>
deployVars == <<pc, opts, env, cfg, loc, executed, run>>
backupVars == <<fs, snaps, cb, calls, ret>>
portVars == <<pm>>
healthVars == <<hw>>
projectVars == <<prj>>

(***************************************************************************)
(* Bounds                                                                  *)
(***************************************************************************)
MaxTime == 1
MaxHist == 4
MaxAdds == 5   \* add_deploy calls of one behaviour

None == "None"
NoTime == 0 - 1          \* a timestamp that is None

(***************************************************************************)
(* Python helpers                                                          *)
(***************************************************************************)
\* seq[start:] with Python's treatment of negative and oversized indices
PySliceFrom(s, start) ==
    LET n  == Len(s)
        st == IF start < 0
              THEN (IF n + start < 0 THEN 0 ELSE n + start)
              ELSE (IF start > n THEN n ELSE start)
    IN  SubSeq(s, st + 1, n)

\* a second of the wall clock passes; only the start of create_backup
\* looks at the second
Tick ==
    /\ second < MaxTime
    /\ cb.pc = "idle"
    /\ second' = second + 1
    /\ UNCHANGED <<prj, hw, pm, now, histVars, deployVars, backupVars>>

(***************************************************************************)
(* history_manager.py                                                      *)
(***************************************************************************)
Commits == {"c0", "c1"}

\* load_history: the stored list ([] when the file does not exist), and []
\* as well when reading or parsing the file raises ("except Exception:
\* return []")
load_history(readable) == IF readable THEN history ELSE <<>>

\* the id add_deploy gives to the new entry
NextDeployId_len(h) == Len(h)
NextDeployId(h) == Len(h) + 1

deploy_entry(h, type, success, bc, fc, options, error) ==
    [id        |-> NextDeployId(h),
     type      |-> type,
     timestamp |-> now,
     success   |-> success,
     commits   |-> [backend |-> bc, frontend |-> fc],
     options   |-> options,
     error     |-> error]

\* the list add_deploy hands to save_history
add_deploy(h, type, success, bc, fc, options, error) ==
    Append(h, deploy_entry(h, type, success, bc, fc, options, error))

\* "for i, entry in enumerate(new_history, start=1): entry['id'] = i"
Reindex_keep(h) == h
Reindex(h) == [i \in 1..Len(h) |-> [h[i] EXCEPT !.id = i]]

\* the list cleanup_old_entries hands to save_history
cleanup_new_history(h, keep_count) == Reindex(PySliceFrom(h, 0 - keep_count))

NoOptions == [fresh_db |-> FALSE, seed |-> FALSE, with_backup |-> FALSE,
              no_pull |-> FALSE, no_deps |-> FALSE, no_build |-> FALSE]

\* HistoryManager.add_deploy called directly
AddDeploy ==
    /\ Len(history) < MaxHist
    /\ now < MaxAdds
    /\ \E success \in BOOLEAN, readable \in BOOLEAN :
         LET h == load_history(readable)
         IN  /\ history' = add_deploy(h, "deploy", success, "c0", "c0", NoOptions,
                                      IF success THEN None ELSE "error")
             /\ histRet' = [op |-> "add_deploy", before |-> h,
                            keep_count |-> None, value |-> NextDeployId(h)]
    /\ now' = now + 1
    /\ UNCHANGED <<prj, hw, pm, second, deployVars, backupVars>>

\* HistoryManager.cleanup_old_entries(keep_count)
CleanupOldEntries ==
    /\ \E keep_count \in -1..MaxHist, readable \in BOOLEAN :
         LET h == load_history(readable)
         IN  IF Len(h) <= keep_count
             THEN /\ history' = history
                  /\ histRet' = [op |-> "cleanup_old_entries", before |-> h,
                                 keep_count |-> keep_count, value |-> 0]
             ELSE LET nh == cleanup_new_history(h, keep_count)
                  IN  /\ history' = nh
                      /\ histRet' = [op |-> "cleanup_old_entries",
                                     before |-> h, keep_count |-> keep_count,
                                     value |-> Len(h) - Len(nh)]
    /\ UNCHANGED <<prj, hw, pm, now, second, deployVars, backupVars>>

(***************************************************************************)
(* cli.py: the deploy command                                              *)
(***************************************************************************)
Unbound == "UNBOUND"     \* a local name that was never assigned
Stacks  == {"laravel-vue", "springboot-vue"}
Components == {"backend", "frontend"}

OtherCommit(c) == IF c = "c0" THEN "c1" ELSE "c0"

Flags == [fresh_db : BOOLEAN, seed : BOOLEAN, with_backup : BOOLEAN,
          no_pull : BOOLEAN, no_deps : BOOLEAN, no_build : BOOLEAN]

Terminal == {"aborted", "crashed", "done"}

\* sys.exit(1) of a fail-fast stage: the command ends there
OnFailFast_continue(next) == next
OnFailFast(next) == "aborted"

\* a warn-and-continue stage that failed: logger.warning and the next stage
OnWarn_abort(next) == "aborted"
OnWarn(next) == next

\* wait_for_healthy returned False: logger.warning and the next stage
OnTimeout_abort(next) == "aborted"
OnTimeout(next) == next

\* an uncaught UnboundLocalError ends the command with a traceback
OnUnbound == "crashed"

Did_twice(stage) == executed' = Append(Append(executed, stage), stage)
Did(stage) == executed' = Append(executed, stage)

\* `ldm deploy <flags>` is invoked (lines 401-415)
DeployStart ==
    /\ pc = "idle"
    /\ \E f \in Flags : opts' = f
    /\ pc' = "preflight"
    /\ executed' = <<>>
    /\ loc' = [backend_commit_old |-> Unbound, frontend_commit_old |-> Unbound,
               backend_commit_new |-> Unbound, frontend_commit_new |-> Unbound,
               changes_detected |-> FALSE, subprocess |-> Unbound,
               services_status |-> Unbound, all_running |-> FALSE]
    /\ run' = [history |-> history, cfg |-> cfg, env |-> env,
               failed |-> None, crash |-> None, pull_failed |-> {},
               warned |-> {}]
    /\ UNCHANGED <<prj, hw, pm, now, second, histVars, env, cfg, backupVars>>

\* 1. pre-deploy validation (lines 417-448)
preflight_ok_no_compose ==
    /\ env.project_exists
    /\ env.config_ok
    /\ env.backend_dir /\ env.frontend_dir
preflight_ok ==
    /\ env.project_exists
    /\ env.config_ok
    /\ env.backend_dir /\ env.frontend_dir
    /\ env.compose_file

PreFlight ==
    /\ pc = "preflight"
    /\ Did("preflight")
    /\ IF preflight_ok
       THEN /\ pc' = "backup"
            /\ run' = run
       ELSE /\ pc' = OnFailFast("backup")
            /\ run' = [run EXCEPT !.failed = "preflight"]
    /\ UNCHANGED <<prj, hw, pm, now, second, histVars, opts, env, cfg, loc, backupVars>>

\* 2. optional backup (lines 450-456): only a warning is printed
Backup ==
    /\ pc = "backup"
    /\ pc' = "sync"
    /\ IF opts.with_backup THEN Did("backup") ELSE executed' = executed
    /\ UNCHANGED <<prj, hw, pm, now, second, histVars, opts, env, cfg, loc, run, backupVars>>

\* 3. git pull of both components (lines 458-496)
PullOutcomes == {"fail", "same", "new"}

HeadAfterPull(head, o) == IF o = "new" THEN OtherCommit(head) ELSE head

\* the value of <component>_commit_new after the pull branch
CommitNewAfterPull(head, o) ==
    IF o = "fail" THEN Unbound ELSE HeadAfterPull(head, o)

Sync ==
    /\ pc = "sync"
    /\ pc' = "deps"
    /\ LET bold == cfg.git_commits.backend
           fold == cfg.git_commits.frontend
       IN  IF ~opts.no_pull
           THEN \E ob \in PullOutcomes, ofr \in PullOutcomes :
                  LET bnew == CommitNewAfterPull(env.head.backend, ob)
                      fnew == CommitNewAfterPull(env.head.frontend, ofr)
                  IN  /\ env' = [env EXCEPT
                                  !.head.backend  = HeadAfterPull(@, ob),
                                  !.head.frontend = HeadAfterPull(@, ofr)]
                      /\ loc' = [loc EXCEPT
                                  !.backend_commit_old  = bold,
                                  !.frontend_commit_old = fold,
                                  !.backend_commit_new  = bnew,
                                  !.frontend_commit_new = fnew,
                                  !.changes_detected =
                                      \/ (ob # "fail" /\ bnew # bold)
                                      \/ (ofr # "fail" /\ fnew # fold)]
                      /\ run' = [run EXCEPT !.pull_failed =
                                  {c \in Components :
                                     \/ (c = "backend"  /\ ob = "fail")
                                     \/ (c = "frontend" /\ ofr = "fail")}]
                      /\ Did("sync")
           ELSE /\ loc' = [loc EXCEPT
                            !.backend_commit_old  = bold,
                            !.frontend_commit_old = fold,
                            !.backend_commit_new  = bold,
                            !.frontend_commit_new = fold]
                /\ UNCHANGED <<prj, hw, pm, env, run, executed>>
    /\ UNCHANGED <<prj, hw, pm, now, second, histVars, opts, cfg, backupVars>>

\* 4. dependencies (lines 498-545): the backend tool only warns, npm
\* install is fail-fast; `import subprocess` binds the local name here
Deps ==
    /\ pc = "deps"
    /\ IF ~opts.no_deps
       THEN \E backend_ok \in BOOLEAN, npm_ok \in BOOLEAN :
              /\ loc' = [loc EXCEPT !.subprocess = "module"]
              /\ Did("deps")
              /\ run' = [run EXCEPT
                          !.warned = IF backend_ok THEN @ ELSE @ \cup {"deps"},
                          !.failed = IF npm_ok THEN @ ELSE "deps"]
              /\ LET after == IF npm_ok THEN "build" ELSE OnFailFast("build")
                 IN  pc' = IF backend_ok THEN after ELSE OnWarn(after)
       ELSE /\ pc' = "build"
            /\ UNCHANGED <<prj, hw, pm, loc, run, executed>>
    /\ UNCHANGED <<prj, hw, pm, now, second, histVars, opts, env, cfg, backupVars>>

\* "if not no_build:" (line 548) guards the build and the copy of dist/
BuildEnabled_always == TRUE
BuildEnabled == ~opts.no_build

\* 5a. npm run build and the dist/ check (lines 547-570)
Build ==
    /\ pc = "build"
    /\ IF ~BuildEnabled
       THEN /\ pc' = "up"
            /\ UNCHANGED <<prj, hw, pm, env, run, executed>>
       ELSE IF loc.subprocess = Unbound
       THEN \* line 553 reads `subprocess` before any assignment
            /\ pc' = OnUnbound
            /\ run' = [run EXCEPT !.crash = "subprocess"]
            /\ UNCHANGED <<prj, hw, pm, env, executed>>
       ELSE \E build_ok \in BOOLEAN, dist \in BOOLEAN :
              /\ Did("build")
              /\ env' = IF build_ok THEN [env EXCEPT !.dist = dist] ELSE env
              /\ IF build_ok /\ dist
                 THEN pc' = "place" /\ run' = run
                 ELSE /\ pc' = OnFailFast("place")
                      /\ run' = [run EXCEPT !.failed = "build"]
    /\ UNCHANGED <<prj, hw, pm, now, second, histVars, opts, cfg, loc, backupVars>>

\* 5b. copy dist/ into the serving location of the stack (lines 572-592)
Place ==
    /\ pc = "place"
    /\ pc' = "up"
    /\ Did("place")
    /\ env' = [env EXCEPT !.artifact = "new"]
    /\ UNCHANGED <<prj, hw, pm, now, second, histVars, opts, cfg, loc, run, backupVars>>

\* 6. docker compose up --build (lines 596-619)
ServicesUp ==
    /\ pc = "up"
    /\ Did("up")
    /\ \E up_ok \in BOOLEAN :
         IF up_ok
         THEN /\ pc' = "health"
              /\ env' = [env EXCEPT !.services = "up"]
              /\ run' = run
         ELSE /\ pc' = OnFailFast("health")
              /\ run' = [run EXCEPT !.failed = "up"]
              /\ env' = env
    /\ UNCHANGED <<prj, hw, pm, now, second, histVars, opts, cfg, loc, backupVars>>

\* 7. wait for the database container (lines 621-630): a timeout only warns
HealthWait ==
    /\ pc = "health"
    /\ Did("health")
    /\ \E healthy \in BOOLEAN :
         /\ pc' = IF healthy THEN "migrate" ELSE OnTimeout("migrate")
         /\ run' = [run EXCEPT
                      !.warned = IF healthy THEN @ ELSE @ \cup {"health"}]
    /\ UNCHANGED <<prj, hw, pm, now, second, histVars, opts, env, cfg, loc, backupVars>>

\* 8a. migrations (lines 632-656, 670-672)
Migrate ==
    /\ pc = "migrate"
    /\ Did("migrate")
    /\ IF cfg.stack = "laravel-vue"
       THEN \E success \in BOOLEAN :
              IF success
              THEN pc' = "seed" /\ run' = run
              ELSE /\ pc' = OnFailFast("seed")
                   /\ run' = [run EXCEPT !.failed = "migrate"]
       ELSE pc' = "seed" /\ run' = run
    /\ UNCHANGED <<prj, hw, pm, now, second, histVars, opts, env, cfg, loc, backupVars>>

\* 8b. seeders (lines 658-668): only inside the laravel branch
Seed ==
    /\ pc = "seed"
    /\ IF cfg.stack = "laravel-vue" /\ opts.seed
       THEN /\ Did("seed")
            /\ \E success \in BOOLEAN :
                 /\ pc' = IF success THEN "optimize" ELSE OnWarn("optimize")
                 /\ run' = [run EXCEPT
                              !.warned = IF success THEN @ ELSE @ \cup {"seed"}]
       ELSE /\ pc' = "optimize"
            /\ UNCHANGED <<run, executed>>
    /\ UNCHANGED <<prj, hw, pm, now, second, histVars, opts, env, cfg, loc, backupVars>>

\* 9. config/route/view cache (lines 676-698): each sub-step only warns
OptimizeCommands == <<"config:cache", "route:cache", "view:cache">>

Optimize ==
    /\ pc = "optimize"
    /\ IF cfg.stack = "laravel-vue"
       THEN /\ executed' = executed \o OptimizeCommands
            /\ \E failing \in SUBSET {"config:cache", "route:cache", "view:cache"} :
                 /\ pc' = IF failing = {} THEN "verify" ELSE OnWarn("verify")
                 /\ run' = [run EXCEPT !.warned = @ \cup failing]
       ELSE /\ pc' = "verify"
            /\ UNCHANGED <<run, executed>>
    /\ UNCHANGED <<prj, hw, pm, now, second, histVars, opts, env, cfg, loc, backupVars>>

\* 10. final verification (lines 700-714).  get_services_status returns
\* {} when compose ps gives nothing, and all() of nothing is True
ServiceReports == {"none", "all_running", "some_down"}

all_running(report) == report # "some_down"

Verify ==
    /\ pc = "verify"
    /\ pc' = "update"
    /\ Did("verify")
    /\ \E report \in ServiceReports :
         loc' = [loc EXCEPT !.services_status = report,
                            !.all_running = all_running(report)]
    /\ UNCHANGED <<prj, hw, pm, now, second, histVars, opts, env, cfg, run, backupVars>>

\* 11. update and save the project configuration (lines 716-728)
UpdateConfig ==
    /\ pc = "update"
    /\ Did("update")
    /\ IF Unbound \in {loc.backend_commit_new, loc.frontend_commit_new}
       THEN \* line 721 reads a name the failed pull never assigned
            /\ pc' = OnUnbound
            /\ run' = [run EXCEPT !.crash = "commit_new"]
            /\ cfg' = cfg
       ELSE /\ pc' = "record"
            /\ run' = run
            /\ cfg' = [cfg EXCEPT
                        !.last_deploy = now,
                        !.git_commits = [backend  |-> loc.backend_commit_new,
                                         frontend |-> loc.frontend_commit_new]]
    /\ now' = now + 1
    /\ UNCHANGED <<prj, hw, pm, second, histVars, opts, env, loc, backupVars>>

\* 13. add_deploy_to_history (lines 760-781): always with success=True
RecordHistory ==
    /\ pc = "record"
    /\ pc' = "done"
    /\ Did("record")
    /\ \E readable \in BOOLEAN :
         LET h == load_history(readable)
         IN  /\ history' = add_deploy(h, "deploy", TRUE,
                                      loc.backend_commit_new,
                                      loc.frontend_commit_new, opts, None)
             /\ histRet' = [op |-> "add_deploy", before |-> h,
                            keep_count |-> None, value |-> NextDeployId(h)]
    /\ now' = now + 1
    /\ UNCHANGED <<prj, hw, pm, second, opts, env, cfg, loc, run, backupVars>>

(***************************************************************************)
(* backup_manager.py                                                       *)
(*                                                                         *)
(* A tree is the set of its files, each a record of a path (the sequence   *)
(* of names below the component directory) and its content.                *)
(***************************************************************************)
MaxCalls == 2   \* backup commands that change the disk
MaxKeep == 2    \* largest keep_count of cleanup_old_backups

Labels == {None, "a"}   \* the --name of a backup (None: not given)
Locations == {"project", "scratch"}

File(path, data) == [path |-> path, data |-> data]

\* a directory that exists holds at least the entry of its own root
Root  == File(<<>>, "dir")
NoDir == {}             \* the directory does not exist

NoId == [ts |-> NoTime, name |-> None]

\* backup-metadata.json does not exist
NoMeta ==
    [written |-> FALSE, backup_id |-> NoId, custom_name |-> None,
     timestamp |-> NoTime, project |-> [stack |-> None],
     database_backup |-> FALSE, database_backup_file |-> None]
\* ignore=shutil.ignore_patterns(...) of the two copytree calls
BackendPatterns ==
    {"node_modules", "vendor", ".git", "storage/logs/*", "bootstrap/cache/*",
     ".env", "target", ".mvn"}
FrontendPatterns == {"node_modules", "dist", ".git", ".env"}

\* fnmatch of one directory entry name against one pattern.  copytree hands
\* ignore_patterns bare entry names, which never contain '/', so a pattern
\* with a '/' in it matches no entry; the others are literal names.
fnmatch(name, pattern) ==
    IF pattern \in {"storage/logs/*", "bootstrap/cache/*"}
    THEN FALSE
    ELSE name = pattern

\* an entry is skipped when its own name or the name of a directory above
\* it matches a pattern
Ignored(path, patterns) ==
    \E i \in 1..Len(path) : \E pt \in patterns : fnmatch(path[i], pt)

\* shutil.copytree(src, dst, ignore=...) seen as the tree that arrives
copytree(tree, patterns) == {f \in tree : ~Ignored(f.path, patterns)}

PatternsOf(component) ==
    IF component = "backend" THEN BackendPatterns ELSE FrontendPatterns

\* the config_files list of create_backup and restore_backup
config_files ==
    {"docker-compose.yml", "nginx.conf", "Dockerfile.php", "Dockerfile.java",
     ".project-config.json", ".credentials.json"}

\* the names backend/.env has inside a snapshot and inside the target
EnvNameInBackup == "backend.env"
EnvPathInTarget_same == <<"backend.env">>
EnvPathInTarget == <<".env">>

\* copy2 of a set of files into a directory: same names are overwritten
copy2(files, into) ==
    {f \in into : \A g \in files : g.path # f.path} \cup files

\* backups_dir / backup_id: strftime("%Y%m%d_%H%M%S") and the label
backup_id(t, name) == [ts |-> t, name |-> name]

EmptySnapshot ==
    [backend |-> NoDir, frontend |-> NoDir, files |-> {}, db_file |-> "absent",
     meta |-> NoMeta, done |-> {}]

\* the snapshot directories with one added, replaced or removed
WithDir(id, dir) ==
    [i \in DOMAIN snaps \cup {id} |-> IF i = id THEN dir ELSE snaps[i]]
WithoutDir(id) == [i \in DOMAIN snaps \ {id} |-> snaps[i]]

\* directory names in ascending order: the fixed-width timestamp first,
\* then the name without a label before the names with one
LabelRank(name) == IF name = None THEN 0 ELSE 1

NameBefore(a, b) ==
    \/ a.ts < b.ts
    \/ (a.ts = b.ts /\ LabelRank(a.name) < LabelRank(b.name))

\* sorted(self.backups_dir.iterdir(), reverse=True)
RECURSIVE SortedReverse(_)
SortedReverse(ids) ==
    IF ids = {} THEN <<>>
    ELSE LET last == CHOOSE x \in ids : \A y \in ids \ {x} : NameBefore(y, x)
         IN  <<last>> \o SortedReverse(ids \ {last})

\* the entry list_backups builds for one directory (lines 362-384)
ListEntry(id) ==
    IF snaps[id].meta # NoMeta
    THEN [backup_id |-> id, timestamp |-> snaps[id].meta.timestamp,
          database_backup |-> snaps[id].meta.database_backup,
          corrupted |-> FALSE]
    ELSE [backup_id |-> id, timestamp |-> NoTime,
          database_backup |-> FALSE, corrupted |-> TRUE]

\* list_backups, lines 352-390
list_backups ==
    LET names == SortedReverse(DOMAIN snaps)
    IN  [i \in 1..Len(names) |-> ListEntry(names[i])]

\* a directory that is not there, and the state before any call returned
NoProject == [exists |-> FALSE, backend |-> NoDir, frontend |-> NoDir,
              files |-> {}]

NoReturn ==
    [op |-> None, success |-> FALSE, id |-> NoId, target |-> None,
     stopped |-> FALSE, db_invoked |-> FALSE, db_failed |-> FALSE,
     keep_count |-> 0, value |-> 0]

NoCall == [pc |-> "idle", id |-> NoId, name |-> None, include_db |-> FALSE,
           db_backup_file |-> None, before |-> <<>>]

\* the order of the steps of create_backup (lines 69-149): the metadata
\* file is written after the files, the configuration and the dump
NextStep_meta_early(step) ==
    CASE step = "backend"  -> "frontend"
      [] step = "frontend" -> "config"
      [] step = "config"   -> "meta"
      [] step = "meta"     -> "db"
      [] step = "db"       -> "return"
NextStep(step) ==
    CASE step = "backend"  -> "frontend"
      [] step = "frontend" -> "config"
      [] step = "config"   -> "db"
      [] step = "db"       -> "meta"
      [] step = "meta"     -> "return"

\* create_backup, lines 56-67: the id is generated and the directory made
\* with exist_ok=True, so an existing directory of that name is reused
CreateBackupStart ==
    /\ cb.pc = "idle"
    /\ calls < MaxCalls
    /\ \E name \in Labels, include_db \in BOOLEAN :
         LET id == backup_id(second, name)
         IN  /\ cb' = [pc |-> "backend", id |-> id, name |-> name,
                       include_db |-> include_db, db_backup_file |-> None,
                       before |-> list_backups]
             /\ snaps' = IF id \in DOMAIN snaps THEN snaps
                         ELSE WithDir(id, EmptySnapshot)
    /\ calls' = calls + 1
    /\ ret' = NoReturn
    /\ UNCHANGED <<prj, hw, pm, now, second, histVars, deployVars, fs>>

\* lines 72-97: copytree of one component, when the project has it.
\* copytree raises when the destination exists or on an I/O error.
CopyComponent(component) ==
    /\ cb.pc = component
    /\ LET src == fs["project"][component]
           dir == snaps[cb.id]
       IN  IF src = NoDir
           THEN /\ snaps' = WithDir(cb.id, [dir EXCEPT
                                 !.done = @ \cup {component}])
                /\ cb' = [cb EXCEPT !.pc = NextStep(component)]
           ELSE IF dir[component] # NoDir
           THEN /\ cb' = [cb EXCEPT !.pc = "except"]
                /\ snaps' = snaps
           ELSE \E io_ok \in BOOLEAN :
                  IF io_ok
                  THEN /\ snaps' = WithDir(cb.id, [dir EXCEPT
                                     ![component] =
                                         copytree(src, PatternsOf(component)),
                                     !.done = @ \cup {component}])
                       /\ cb' = [cb EXCEPT !.pc = NextStep(component)]
                  ELSE /\ snaps' = WithDir(cb.id, [dir EXCEPT
                                     ![component] = {Root}])
                       /\ cb' = [cb EXCEPT !.pc = "except"]
    /\ UNCHANGED <<prj, hw, pm, now, second, histVars, deployVars, fs, calls, ret>>

CopyBackend  == CopyComponent("backend")
CopyFrontend == CopyComponent("frontend")

\* the top-level .env of the backend tree, as a set of at most one file
BackendEnv(tree) ==
    {f \in tree : f.path = <<".env">>}

\* lines 99-121: the configuration files that exist, and backend/.env
\* under the name backend.env
CopyConfig ==
    /\ cb.pc = "config"
    /\ LET dir   == snaps[cb.id]
           proj  == fs["project"]
           confs == {f \in proj.files : f.path[1] \in config_files}
           envs  == {File(<<EnvNameInBackup>>, f.data) :
                        f \in BackendEnv(proj.backend)}
       IN  \E io_ok \in BOOLEAN :
             IF io_ok
             THEN /\ snaps' = WithDir(cb.id, [dir EXCEPT
                                !.files = copy2(confs \cup envs, @),
                                !.done = @ \cup {"config"}])
                  /\ cb' = [cb EXCEPT !.pc = NextStep("config")]
             ELSE /\ snaps' = snaps
                  /\ cb' = [cb EXCEPT !.pc = "except"]
    /\ UNCHANGED <<prj, hw, pm, now, second, histVars, deployVars, fs, calls, ret>>

\* lines 123-135 and _backup_database: the dump file is opened for writing
\* before the tool runs, so a failed dump leaves an empty file; the failure
\* is only a warning
BackupDatabase ==
    /\ cb.pc = "db"
    /\ LET dir == snaps[cb.id]
       IN  IF cb.include_db
           THEN \E db_success \in BOOLEAN :
                  /\ snaps' = WithDir(cb.id, [dir EXCEPT
                                !.db_file = IF db_success THEN "dump"
                                            ELSE "empty",
                                !.done = @ \cup {"db"}])
                  /\ cb' = [cb EXCEPT
                             !.pc = NextStep("db"),
                             !.db_backup_file =
                                 IF db_success THEN "database_backup.sql"
                                 ELSE None]
           ELSE /\ snaps' = WithDir(cb.id, [dir EXCEPT !.done = @ \cup {"db"}])
                /\ cb' = [cb EXCEPT !.pc = NextStep("db")]
    /\ UNCHANGED <<prj, hw, pm, now, second, histVars, deployVars, fs, calls, ret>>

create_metadata_claims_dump(id, name, db_backup_file) ==
    [written              |-> TRUE,
     backup_id            |-> id,
     custom_name          |-> name,
     timestamp            |-> now,
     project              |-> [stack |-> cfg.stack],
     database_backup      |-> TRUE,
     database_backup_file |-> "database_backup.sql"]
\* _create_metadata, lines 298-320
create_metadata(id, name, db_backup_file) ==
    [written              |-> TRUE,
     backup_id            |-> id,
     custom_name          |-> name,
     timestamp            |-> now,
     project              |-> [stack |-> cfg.stack],
     database_backup      |-> db_backup_file # None,
     database_backup_file |-> db_backup_file]

\* lines 137-149: the metadata file is written
WriteMetadata ==
    /\ cb.pc = "meta"
    /\ LET dir == snaps[cb.id]
       IN  \E io_ok \in BOOLEAN :
             IF io_ok
             THEN /\ snaps' = WithDir(cb.id, [dir EXCEPT
                                !.meta = create_metadata(cb.id, cb.name,
                                                         cb.db_backup_file)])
                  /\ cb' = [cb EXCEPT !.pc = NextStep("meta")]
             ELSE /\ snaps' = snaps
                  /\ cb' = [cb EXCEPT !.pc = "except"]
    /\ now' = now + 1
    /\ UNCHANGED <<prj, hw, pm, second, histVars, deployVars, fs, calls, ret>>

\* lines 151-159: the size is computed and (True, backup_id) returned
CreateBackupReturn ==
    /\ cb.pc = "return"
    /\ cb' = NoCall
    /\ ret' = [NoReturn EXCEPT !.op = "create_backup", !.success = TRUE,
                               !.id = cb.id]
    /\ UNCHANGED <<prj, hw, pm, now, second, histVars, deployVars, fs, snaps, calls>>

\* lines 161-169: the except block removes backup_path when it exists and
\* returns (False, None)
CreateBackupExcept ==
    /\ cb.pc = "except"
    /\ cb' = NoCall
    /\ snaps' = IF cb.id \in DOMAIN snaps THEN WithoutDir(cb.id) ELSE snaps
    /\ ret' = [NoReturn EXCEPT !.op = "create_backup", !.success = FALSE]
    /\ UNCHANGED <<prj, hw, pm, now, second, histVars, deployVars, fs, calls>>

\* the user interrupts a running create_backup: KeyboardInterrupt is not an
\* Exception, so the except block does not run and the directory stays
CreateBackupInterrupt ==
    /\ cb.pc \notin {"idle", "except"}
    /\ cb' = NoCall
    /\ ret' = [NoReturn EXCEPT !.op = "interrupted"]
    /\ UNCHANGED <<prj, hw, pm, now, second, histVars, deployVars, fs, snaps, calls>>

ListBackups ==
    /\ ret' = [NoReturn EXCEPT !.op = "list_backups", !.success = TRUE]
    /\ UNCHANGED <<prj, hw, pm, now, second, histVars, deployVars, fs, snaps, cb, calls>>

\* restore_backup, lines 435-444 (and get_backup, lines 402-410): the
\* directory and its metadata file must both exist
backup_found_dir(id) == id \in DOMAIN snaps
backup_found(id) == id \in DOMAIN snaps /\ snaps[id].meta # NoMeta

\* lines 453-469: a component of the snapshot replaces the one of the target
\* (rmtree, then copytree, which also creates the missing parents)
restore_component_merge(tgt, snapshot, component) ==
    IF snapshot[component] = NoDir THEN tgt
    ELSE IF tgt[component] = NoDir
    THEN [tgt EXCEPT ![component] = snapshot[component], !.exists = TRUE]
    ELSE [tgt EXCEPT ![component] = copy2(snapshot[component], @)]
restore_component(tgt, snapshot, component) ==
    IF snapshot[component] = NoDir THEN tgt
    ELSE [tgt EXCEPT ![component] = snapshot[component], !.exists = TRUE]

\* lines 474-494: the configuration files, then backend.env as backend/.env.
\* copy2 raises when the directory it copies into does not exist.
restore_config(tgt, snapshot) ==
    LET confs == {f \in snapshot.files : f.path[1] \in config_files}
        envs  == {File(EnvPathInTarget, f.data) :
                    f \in {g \in snapshot.files :
                             g.path = <<EnvNameInBackup>>}}
    IN  IF confs # {} /\ ~tgt.exists
        THEN [raised |-> TRUE, tgt |-> tgt]
        ELSE LET t1 == [tgt EXCEPT !.files = copy2(confs, @)]
             IN  IF envs = {} THEN [raised |-> FALSE, tgt |-> t1]
                 ELSE IF t1.backend = NoDir
                 THEN [raised |-> TRUE, tgt |-> t1]
                 ELSE [raised |-> FALSE,
                       tgt |-> [t1 EXCEPT !.backend = copy2(envs, @)]]

\* lines 497-514 and _restore_database: the restore tool is run when the
\* metadata announces a dump, the dump file exists and the target has its
\* .project-config.json
db_restore_invoked(tgt, snapshot, restore_db) ==
    /\ restore_db
    /\ snapshot.meta.database_backup
    /\ snapshot.db_file # "absent"
    /\ \E f \in tgt.files : f.path = <<".project-config.json">>

\* docker cp and docker exec reach only a container that exists: after
\* compose_down there is none, and the restore tool can also fail by itself
db_tool_outcomes(services) ==
    IF services = "up" THEN BOOLEAN ELSE {FALSE}

\* lines 508-514: the warnings "Database restore failed" and "Database
\* backup file not found"
db_restore_failed(r, snapshot, restore_db, tool_ok) ==
    /\ r.success
    /\ restore_db
    /\ snapshot.meta.database_backup
    /\ ~(r.db_invoked /\ tool_ok)

\* restore_backup(backup_id, target_path, restore_db): what it returns and
\* what it leaves in the target
restore_backup(id, target, restore_db) ==
    IF ~backup_found(id)
    THEN [success |-> FALSE, tgt |-> fs[target], db_invoked |-> FALSE]
    ELSE LET snapshot == snaps[id]
             t1 == restore_component(fs[target], snapshot, "backend")
             t2 == restore_component(t1, snapshot, "frontend")
             r  == restore_config(t2, snapshot)
         IN  IF r.raised
             THEN [success |-> FALSE, tgt |-> r.tgt, db_invoked |-> FALSE]
             ELSE [success |-> TRUE, tgt |-> r.tgt,
                   db_invoked |-> db_restore_invoked(r.tgt, snapshot,
                                                     restore_db)]

\* the ids a caller may name: the directories there are, and one that no
\* create_backup has made
MissingId == [ts |-> 0, name |-> "missing"]
BackupIds == DOMAIN snaps \cup {MissingId}

RestoreReturn(id, target, r, stopped, db_failed) ==
    [NoReturn EXCEPT
       !.op = "restore_backup", !.success = r.success, !.id = id,
       !.target = target, !.stopped = stopped, !.db_invoked = r.db_invoked,
       !.db_failed = db_failed]

\* BackupManager.restore_backup called with any target path.  The commands
\* that change the disk are run one at a time; only the listing is taken
\* while a backup is being calls.
RestoreBackup ==
    /\ cb.pc = "idle"
    /\ \E id \in BackupIds, target \in {"scratch"}, restore_db \in BOOLEAN,
          tool_ok \in db_tool_outcomes(env.services) :
         LET r == restore_backup(id, target, restore_db)
         IN  /\ fs' = [fs EXCEPT ![target] = r.tgt]
             /\ ret' = RestoreReturn(id, target, r, FALSE,
                          /\ backup_found(id)
                          /\ db_restore_failed(r, snaps[id], restore_db,
                                               tool_ok))
    /\ calls < MaxCalls
    /\ calls' = calls + 1
    /\ UNCHANGED <<prj, hw, pm, now, second, histVars, deployVars, snaps, cb>>

\* utils.project_exists for the active project
project_exists ==
    /\ fs["project"].exists
    /\ \E f \in fs["project"].files : f.path = <<".project-config.json">>

\* `ldm backup restore <id>` (cli.py lines 1288-1340): get_backup must find
\* the snapshot, then the services are stopped, then the active project is
\* the target of restore_backup
BackupRestoreCommand ==
    /\ cb.pc = "idle"
    /\ project_exists
    /\ \E id \in BackupIds, no_db \in BOOLEAN :
         IF ~backup_found(id)
         THEN /\ ret' = RestoreReturn(id, "project",
                          [success |-> FALSE, tgt |-> fs["project"],
                           db_invoked |-> FALSE], FALSE, FALSE)
              /\ UNCHANGED <<prj, hw, pm, fs, env>>
         ELSE LET compose == \E f \in fs["project"].files :
                                f.path = <<"docker-compose.yml">>
                  r == restore_backup(id, "project", ~no_db)
                  services == IF compose THEN "down" ELSE env.services
              IN  /\ env' = [env EXCEPT !.services = services]
                  /\ fs' = [fs EXCEPT !["project"] = r.tgt]
                  /\ \E tool_ok \in db_tool_outcomes(services) :
                       ret' = RestoreReturn(id, "project", r, compose,
                                db_restore_failed(r, snaps[id], ~no_db,
                                                  tool_ok))
    /\ calls < MaxCalls
    /\ calls' = calls + 1
    /\ UNCHANGED <<prj, hw, pm, now, second, histVars, pc, opts, cfg, loc, executed, run,
                   snaps, cb>>

\* delete_backup, lines 627-641
DeleteBackup ==
    /\ cb.pc = "idle"
    /\ \E id \in BackupIds :
         /\ snaps' = IF id \in DOMAIN snaps THEN WithoutDir(id) ELSE snaps
         /\ ret' = [NoReturn EXCEPT !.op = "delete_backup", !.id = id,
                                    !.success = id \in DOMAIN snaps]
    /\ calls < MaxCalls
    /\ calls' = calls + 1
    /\ UNCHANGED <<prj, hw, pm, now, second, histVars, deployVars, fs, cb>>

\* backups.sort(key=lambda x: x.get('timestamp', ''), reverse=True), line
\* 660: the entry of a corrupted directory has the key 'timestamp' with the
\* value None, so its sort key is None, and a comparison with None raises
\* TypeError; a list of fewer than two entries is sorted without comparing
sort_raises(backups) ==
    /\ Len(backups) >= 2
    /\ \E i \in 1..Len(backups) : backups[i].timestamp = NoTime

\* the list after the sort: newest timestamp first, entries with the same
\* timestamp in the order they had
RECURSIVE sort_by_timestamp(_)
sort_by_timestamp(backups) ==
    IF backups = <<>> THEN <<>>
    ELSE LET n == Len(backups)
             k == CHOOSE i \in 1..n :
                    /\ \A j \in 1..n :
                          backups[j].timestamp <= backups[i].timestamp
                    /\ \A j \in 1..(i - 1) :
                          backups[j].timestamp < backups[i].timestamp
         IN  <<backups[k]>> \o
             sort_by_timestamp(SubSeq(backups, 1, k - 1)
                               \o SubSeq(backups, k + 1, n))

\* the ids cleanup_old_backups hands to delete_backup: backups[keep_count:]
cleanup_doomed_by_name(backups, keep_count) ==
    LET old == PySliceFrom(backups, keep_count)
    IN  {old[i].backup_id : i \in 1..Len(old)}
cleanup_doomed(backups, keep_count) ==
    LET old == PySliceFrom(sort_by_timestamp(backups), keep_count)
    IN  {old[i].backup_id : i \in 1..Len(old)}

\* cleanup_old_backups(keep_count), lines 653-672
CleanupOldBackups ==
    /\ cb.pc = "idle"
    /\ calls < MaxCalls
    /\ \E keep_count \in -1..MaxKeep :
         LET backups == list_backups
             kept    == [NoReturn EXCEPT !.op = "cleanup_old_backups",
                                         !.success = TRUE,
                                         !.keep_count = keep_count]
         IN  IF Len(backups) <= keep_count \/ sort_raises(backups)
             THEN /\ snaps' = snaps
                  /\ ret' = kept
             ELSE LET doomed == cleanup_doomed(backups, keep_count)
                  IN  /\ snaps' = [i \in DOMAIN snaps \ doomed |-> snaps[i]]
                      /\ ret' = [kept EXCEPT !.value = Cardinality(doomed)]
    /\ calls' = calls + 1
    /\ UNCHANGED <<prj, hw, pm, now, second, histVars, deployVars, fs, cb>>

(***************************************************************************)
(* port_manager.py                                                         *)
(*                                                                         *)
(* `bound` is the set of ports on which bind() fails with OSError while a  *)
(* call runs.                                                              *)
(***************************************************************************)
MaxProbe == 2           \* width of the port ranges and of max_attempts

MaxPortNumber == 65535          \* "if alternative > 65535", line 113
DefaultMaxAttempts == 10        \* max_attempts: int = 10, line 96
NoPort == 0 - 1                 \* the None suggest_alternative_port returns

\* get_default_ports: the services in the order the dict holds them
ServiceOrder == <<"http", "https", "mysql">>
Services == {ServiceOrder[i] : i \in 1..Len(ServiceOrder)}

\* ports that may be bound, at the low end and at the top of the range
PortPool ==
    (80..(80 + MaxProbe)) \cup ((MaxPortNumber - 1)..MaxPortNumber)

\* ports a caller may ask for: 0, -1 and 65536 are outside 1..65535
DesiredPorts == {0 - 1, 0, 80, 81, MaxPortNumber - 1, MaxPortNumber,
                 MaxPortNumber + 1}

\* s.bind((host, port)) raises OverflowError, which is no OSError, for a
\* port outside 0..65535 (lines 31-38)
bind_overflows(port) == port < 0 \/ port > MaxPortNumber

\* is_port_available, lines 31-38, for a port bind() accepts; binding
\* port 0 takes an ephemeral port and succeeds
is_port_available(port, bound) == port \notin bound

\* suggest_alternative_port, lines 107-120
suggest_alternative_port_above(desired_port, max_attempts, bound) ==
    LET tried == {desired_port + i : i \in 1..max_attempts}
        free  == {q \in tried : /\ q <= MaxPortNumber
                                /\ is_port_available(q, bound)}
    IN  IF free = {} THEN NoPort
        ELSE CHOOSE q \in free : \A r \in free : q <= r
suggest_alternative_port(desired_port, max_attempts, bound) ==
    IF is_port_available(desired_port, bound)
    THEN desired_port
    ELSE LET tried == {desired_port + i : i \in 1..max_attempts}
             \* the loop breaks at the first value above 65535
             free  == {q \in tried : /\ q <= MaxPortNumber
                                     /\ is_port_available(q, bound)}
         IN  IF free = {} THEN NoPort
             ELSE CHOOSE q \in free : \A r \in free : q <= r

\* the ports suggest_alternative_port calls is_port_available on
suggest_probes(desired_port, max_attempts, bound) ==
    IF is_port_available(desired_port, bound)
    THEN {desired_port}
    ELSE LET found == suggest_alternative_port(desired_port, max_attempts,
                                               bound)
             top   == IF found # NoPort THEN found
                      ELSE IF desired_port + max_attempts > MaxPortNumber
                           THEN MaxPortNumber
                           ELSE desired_port + max_attempts
         IN  {desired_port} \cup ((desired_port + 1)..top)

\* "if alternative:" is false for None and for 0
Truthy(port) == port # NoPort /\ port # 0

\* one pass of the loop of check_and_suggest_ports, lines 177-196
Resolve_silent(service, port, bound) ==
    IF is_port_available(port, bound)
    THEN [port |-> port, warning |-> "none", alternative |-> NoPort]
    ELSE LET alternative ==
                 suggest_alternative_port(port, DefaultMaxAttempts, bound)
         IN  IF Truthy(alternative)
             THEN [port |-> alternative, warning |-> "using",
                   alternative |-> alternative]
             ELSE [port |-> port, warning |-> "none",
                   alternative |-> NoPort]
\* the else branch, lines 180-196: the search for an alternative, on the
\* ports that are bound when it runs
ResolveOccupied(service, port, bound) ==
    LET alternative ==
            suggest_alternative_port(port, DefaultMaxAttempts, bound)
    IN  IF Truthy(alternative)
        THEN [port |-> alternative, warning |-> "using",
              alternative |-> alternative]
        ELSE [port |-> port, warning |-> "no_alternative",
              alternative |-> NoPort]

Resolve(service, port, bound) ==
    IF is_port_available(port, bound)
    THEN [port |-> port, warning |-> "none", alternative |-> NoPort]
    ELSE ResolveOccupied(service, port, bound)

\* final_ports after the loop
final_ports_resolved(desired_ports, bound) ==
    [s \in {t \in DOMAIN desired_ports :
              Resolve(t, desired_ports[t], bound).warning # "no_alternative"}
       |-> Resolve(s, desired_ports[s], bound).port]
final_ports(desired_ports, bound) ==
    [s \in DOMAIN desired_ports |-> Resolve(s, desired_ports[s], bound).port]

\* warnings after the loop: one text per service whose port was occupied,
\* in the order of desired_ports.items()
warnings(desired_ports, bound) ==
    LET Warned(s) == /\ s \in DOMAIN desired_ports
                     /\ Resolve(s, desired_ports[s], bound).warning # "none"
        order == SelectSeq(ServiceOrder, Warned)
    IN  [i \in 1..Len(order) |->
           [service     |-> order[i],
            port        |-> desired_ports[order[i]],
            text        |-> Resolve(order[i], desired_ports[order[i]],
                                    bound).warning,
            alternative |-> Resolve(order[i], desired_ports[order[i]],
                                    bound).alternative]]

\* the ports the loop has called is_port_available on
probed_ports(desired_ports, bound) ==
    UNION {IF bind_overflows(desired_ports[s])
           THEN {desired_ports[s]}
           ELSE IF is_port_available(desired_ports[s], bound)
                THEN {desired_ports[s]}
                ELSE suggest_probes(desired_ports[s], DefaultMaxAttempts,
                                    bound) : s \in DOMAIN desired_ports}

PortsIdle ==
    [op |-> None, desired_ports |-> <<>>, bound |-> {}, desired_port |-> 0,
     max_attempts |-> 0, raised |-> FALSE, final_ports |-> <<>>,
     warnings |-> <<>>, probed |-> {}, value |-> NoPort, changed |-> FALSE]

\* check_and_suggest_ports(desired_ports), lines 173-198; a PortManager
\* keeps nothing between calls, so one call is followed here
CheckAndSuggestPorts ==
    /\ pm.op = None
    /\ \E names \in SUBSET Services, bound \in SUBSET PortPool :
         \E desired_ports \in [names -> DesiredPorts] :
           LET raised == \E s \in names : bind_overflows(desired_ports[s])
           IN  pm' = [PortsIdle EXCEPT
                        !.op = "check_and_suggest_ports",
                        !.desired_ports = desired_ports,
                        !.bound = bound,
                        !.raised = raised,
                        !.probed = probed_ports(desired_ports, bound),
                        !.final_ports =
                            IF raised THEN <<>>
                            ELSE final_ports(desired_ports, bound),
                        !.warnings =
                            IF raised THEN <<>>
                            ELSE warnings(desired_ports, bound)]
    /\ UNCHANGED <<prj, hw, now, second, histVars, deployVars, backupVars>>

\* suggest_alternative_port(desired_port, max_attempts), lines 107-120
SuggestAlternativePort ==
    /\ pm.op = None
    /\ \E desired_port \in DesiredPorts, bound \in SUBSET PortPool,
          max_attempts \in (0 - 1)..(MaxProbe + 1) :
         LET raised == bind_overflows(desired_port)
         IN  pm' = [PortsIdle EXCEPT
                      !.op = "suggest_alternative_port",
                      !.desired_port = desired_port,
                      !.max_attempts = max_attempts,
                      !.bound = bound,
                      !.raised = raised,
                      !.probed = IF raised THEN {desired_port}
                                 ELSE suggest_probes(desired_port,
                                                     max_attempts, bound),
                      !.value = IF raised THEN NoPort
                                ELSE suggest_alternative_port(
                                         desired_port, max_attempts, bound)]
    /\ UNCHANGED <<prj, hw, now, second, histVars, deployVars, backupVars>>

\* check_and_suggest_ports for one service, followed probe by probe while
\* other processes bind and release ports.  Lines 176-177: the first probe
\* of the desired port.
CheckFirstProbe ==
    /\ pm.op = None
    /\ \E service \in Services, port \in DesiredPorts,
          bound \in SUBSET PortPool :
         LET call == [PortsIdle EXCEPT !.desired_ports = service :> port,
                                       !.bound = bound,
                                       !.probed = {port}]
         IN  pm' = IF bind_overflows(port)
                   THEN [call EXCEPT !.op = "check_and_suggest_ports",
                                     !.raised = TRUE]
                   ELSE IF is_port_available(port, bound)
                   THEN [call EXCEPT !.op = "check_and_suggest_ports",
                                     !.final_ports = service :> port]
                   ELSE [call EXCEPT !.op = "searching"]
    /\ UNCHANGED <<prj, hw, now, second, histVars, deployVars, backupVars>>

\* another process binds or releases a port between the first probe and
\* the search
OtherProcess ==
    /\ pm.op = "searching"
    /\ ~pm.changed
    /\ \E p \in PortPool :
         pm' = [pm EXCEPT !.bound = IF p \in @ THEN @ \ {p} ELSE @ \cup {p},
                          !.changed = TRUE]
    /\ UNCHANGED <<prj, hw, now, second, histVars, deployVars, backupVars>>

\* lines 180-196: the search for an alternative and the warning
CheckSearch ==
    /\ pm.op = "searching"
    /\ LET service == CHOOSE s \in Services : s \in DOMAIN pm.desired_ports
           port    == pm.desired_ports[service]
           r       == ResolveOccupied(service, port, pm.bound)
       IN  pm' = [pm EXCEPT
                    !.op = "check_and_suggest_ports",
                    !.final_ports = service :> r.port,
                    !.warnings = <<[service |-> service, port |-> port,
                                    text |-> r.warning,
                                    alternative |-> r.alternative]>>,
                    !.probed = @ \cup suggest_probes(port, DefaultMaxAttempts,
                                                     pm.bound)]
    /\ UNCHANGED <<prj, hw, now, second, histVars, deployVars, backupVars>>

(***************************************************************************)
(* DockerManager.wait_for_healthy (docker_manager.py:642-668)              *)
(***************************************************************************)
MaxTimeout == 5   \* largest timeout argument
MaxProbeTime == 1   \* longest a container_health call takes

PollInterval == 2               \* time.sleep(2), line 665

Timeouts == 0..MaxTimeout

\* what a health query meets: a status the engine reports, a container
\* without a health check, a missing container, no docker client, an API
\* error in containers.get, an error while reading the attributes
ReportedStatuses == {"healthy", "unhealthy", "starting"}
Unreadable == {"no_healthcheck", "not_found", "no_client", "api_error",
               "attr_error"}
HealthReads == ReportedStatuses \cup Unreadable

\* get_container (lines 402-420) and container_health (lines 471-488): the
\* status, or None when it cannot be read; both catch every Exception
container_health_propagates(read) ==
    IF read \in ReportedStatuses THEN read
    ELSE IF read \in {"api_error", "attr_error"} THEN "raise"
    ELSE None
container_health(read) ==
    IF read \in ReportedStatuses THEN read ELSE None

HealthIdle ==
    [pc |-> "idle", timeout |-> 0, never_healthy |-> FALSE, elapsed |-> 0,
     last_probe |-> 0, last_read |-> None, unreadable_seen |-> FALSE,
     signalled |-> FALSE, result |-> FALSE]

\* "while time.time() - start_time < timeout", line 658
within_timeout_inclusive(elapsed, timeout) == elapsed <= timeout
within_timeout(elapsed, timeout) == elapsed < timeout

\* lines 655-657: start_time is taken; the container is one that never
\* becomes healthy, or one that may
WaitForHealthy ==
    /\ hw.pc = "idle"
    /\ \E timeout \in Timeouts, never_healthy \in BOOLEAN :
         hw' = [HealthIdle EXCEPT !.pc = "check", !.timeout = timeout,
                                  !.never_healthy = never_healthy]
    /\ UNCHANGED <<prj, pm, now, second, histVars, deployVars, backupVars>>

\* line 658 and lines 667-668: the loop condition, and the return of False
\* when it fails
LoopCondition ==
    /\ hw.pc = "check"
    /\ hw' = IF within_timeout(hw.elapsed, hw.timeout)
             THEN [hw EXCEPT !.pc = "probe"]
             ELSE [hw EXCEPT !.pc = "returned", !.result = FALSE]
    /\ UNCHANGED <<prj, pm, now, second, histVars, deployVars, backupVars>>

\* lines 659-663: container_health takes some time; 'healthy' returns True
ContainerHealth ==
    /\ hw.pc = "probe"
    /\ \E took \in 0..MaxProbeTime, read \in HealthReads :
         LET health == container_health(read)
             polled == [hw EXCEPT !.elapsed = @ + took, !.last_probe = took,
                                  !.last_read = read,
                                  !.unreadable_seen =
                                      @ \/ read \in Unreadable]
         IN  /\ hw.never_healthy => read # "healthy"
             /\ hw' = IF health = "raise"
                      THEN [polled EXCEPT !.pc = "raised"]
                      ELSE IF health = "healthy"
                      THEN [polled EXCEPT !.pc = "returned", !.result = TRUE]
                      ELSE [polled EXCEPT !.pc = "sleep"]
    /\ UNCHANGED <<prj, pm, now, second, histVars, deployVars, backupVars>>

\* the user interrupt: KeyboardInterrupt is raised in the running call, in
\* the sleep or in the health query; it is not an Exception, so no except
\* clause of docker_manager.py or of deploy catches it, the frame is left
\* without a return value and the command ends
OnInterrupt_ignored(frame) == [frame EXCEPT !.signalled = TRUE]
OnInterrupt(frame) == [frame EXCEPT !.signalled = TRUE, !.pc = "interrupted"]

Interrupt ==
    /\ hw.pc \in {"check", "probe", "sleep"}
    /\ ~hw.signalled
    /\ hw' = OnInterrupt(hw)
    /\ UNCHANGED <<prj, pm, now, second, histVars, deployVars, backupVars>>

\* line 665: time.sleep(2)
Sleep ==
    /\ hw.pc = "sleep"
    /\ hw' = [hw EXCEPT !.pc = "check", !.elapsed = @ + PollInterval]
    /\ UNCHANGED <<prj, pm, now, second, histVars, deployVars, backupVars>>


(***************************************************************************)
(* cli.py: the init and destroy commands                                   *)
(***************************************************************************)
MaxInits == 2   \* init commands in one behaviour

\* the active-project path when nothing is there, and the configuration
\* get_project_config returns then
NoProjectEnv ==
    [project_dir |-> FALSE, project_exists |-> FALSE, config_ok |-> FALSE,
     backend_dir |-> FALSE, frontend_dir |-> FALSE, compose_file |-> FALSE,
     dist |-> FALSE, artifact |-> "old", services |-> "down",
     head |-> [backend |-> "c0", frontend |-> "c0"]]

NoConfig ==
    [stack |-> None, last_deploy |-> 0 - 1,
     git_commits |-> [backend |-> None, frontend |-> None]]

\* where an init command can fail: the tool and argument checks, a clone,
\* the .env file, the docker files, the two writes at the end
InitFailures == {"none", "checks", "backend", "frontend", "env", "docker",
                 "config", "credentials"}

\* "if project_exists():" at the start of init (lines 96-100)
init_refused_never(e) == FALSE
init_refused(e) == e.project_exists

\* git clone fails when the destination exists and is not empty
clone_ok(exists, fail, component) == ~exists /\ fail # component

\* init, lines 93-321: what it leaves on disk when it fails at `fail`
\* (compose_written: whether setup_project_docker wrote docker-compose.yml
\* before it failed)
init(e, c, stack, fail, compose_written) ==
    LET unchanged == [env |-> e, cfg |-> c, outcome |-> "failed"]
        e1 == [e EXCEPT !.project_dir = TRUE]
        e2 == [e1 EXCEPT !.backend_dir = TRUE, !.head.backend = "c0"]
        e3 == [e2 EXCEPT !.frontend_dir = TRUE, !.head.frontend = "c0",
                         !.dist = FALSE]
        e4 == [e3 EXCEPT !.compose_file = TRUE]
        e5 == [e4 EXCEPT !.project_exists = TRUE, !.config_ok = TRUE]
        c5 == [stack |-> stack, last_deploy |-> 0 - 1,
               git_commits |-> [backend |-> "c0", frontend |-> "c0"]]
    IN  IF init_refused(e)
        THEN [unchanged EXCEPT !.outcome = "refused"]
        ELSE IF fail = "checks" THEN unchanged
        ELSE IF ~clone_ok(e.backend_dir, fail, "backend")
        THEN [unchanged EXCEPT !.env = e1]
        ELSE IF ~clone_ok(e.frontend_dir, fail, "frontend")
        THEN [unchanged EXCEPT !.env = e2]
        ELSE IF fail = "env" THEN [unchanged EXCEPT !.env = e3]
        ELSE IF fail = "docker"
        THEN [unchanged EXCEPT
                !.env = IF compose_written THEN e4 ELSE e3]
        ELSE IF fail = "config" THEN [unchanged EXCEPT !.env = e4]
        ELSE IF fail = "credentials"
        THEN [env |-> e5, cfg |-> c5, outcome |-> "failed"]
        ELSE [env |-> e5, cfg |-> c5, outcome |-> "ok"]

\* what a failed rmtree may have removed before it raised
Removable == {"config", "backend", "frontend", "compose", "history"}

\* destroy, lines 1123-1171: compose_down when the compose file is there,
\* then rmtree of the project directory, which holds deploy-history.json
destroy(e, c, h, down_ok, rm_ok, removed) ==
    IF ~e.project_exists
    THEN [env |-> e, cfg |-> c, history |-> h, outcome |-> "refused"]
    ELSE LET services == IF e.compose_file /\ down_ok THEN "down"
                         ELSE e.services
         IN  IF rm_ok
             THEN [env |-> [NoProjectEnv EXCEPT !.services = services],
                   cfg |-> NoConfig, history |-> <<>>, outcome |-> "ok"]
             ELSE [env |-> [e EXCEPT
                       !.services = services,
                       !.project_exists = @ /\ "config" \notin removed,
                       !.config_ok = @ /\ "config" \notin removed,
                       !.backend_dir = @ /\ "backend" \notin removed,
                       !.frontend_dir = @ /\ "frontend" \notin removed,
                       !.dist = @ /\ "frontend" \notin removed,
                       !.compose_file = @ /\ "compose" \notin removed],
                   cfg |-> IF "config" \in removed THEN NoConfig ELSE c,
                   history |-> IF "history" \in removed THEN <<>> ELSE h,
                   outcome |-> "failed"]

\* prj.active: the init commands that saved a project configuration which
\* no destroy has removed since
ProjectIdle == [op |-> None, outcome |-> None, inits |-> 0, active |-> {}]

\* the commands are run one at a time
NoCommandRunning == pc \in {"idle"} \cup Terminal

\* `ldm init ...`
InitCommand ==
    /\ NoCommandRunning
    /\ prj.inits < MaxInits
    /\ \E stack \in Stacks, fail \in InitFailures, compose_written \in BOOLEAN :
         LET r == init(env, cfg, stack, fail, compose_written)
             n == prj.inits + 1
         IN  /\ env' = r.env
             /\ cfg' = r.cfg
             /\ prj' = [op |-> "init", outcome |-> r.outcome, inits |-> n,
                         active |-> IF r.env.project_exists
                                       /\ r.outcome # "refused"
                                    THEN prj.active \cup {n}
                                    ELSE prj.active]
    /\ UNCHANGED <<hw, pm, now, second, histVars, pc, opts, loc, executed,
                   run, backupVars>>

\* `ldm destroy`
DestroyCommand ==
    /\ NoCommandRunning
    /\ \E down_ok \in BOOLEAN, rm_ok \in BOOLEAN, removed \in SUBSET Removable :
         LET r == destroy(env, cfg, history, down_ok, rm_ok, removed)
         IN  /\ env' = r.env
             /\ cfg' = r.cfg
             /\ history' = r.history
             /\ prj' = [prj EXCEPT
                           !.op = "destroy", !.outcome = r.outcome,
                           !.active = IF r.env.project_exists THEN @
                                      ELSE {}]
    /\ UNCHANGED <<hw, pm, now, second, histRet, pc, opts, loc, executed,
                   run, backupVars>>


(***************************************************************************)
(* Initial states and specifications                                       *)
(***************************************************************************)
HistoryIdle == /\ history = <<>>
               /\ histRet = [op |-> None, before |-> <<>>,
                             keep_count |-> None, value |-> 0]

NoLocals == [backend_commit_old |-> Unbound, frontend_commit_old |-> Unbound,
             backend_commit_new |-> Unbound, frontend_commit_new |-> Unbound,
             changes_detected |-> FALSE, subprocess |-> Unbound,
             services_status |-> Unbound, all_running |-> FALSE]

\* the project as `ldm init` leaves it (cli.py lines 296-321), with one of
\* the things pre-flight looks for possibly missing
Missing == {"nothing", "project", "config", "backend", "frontend", "compose"}

ProjectEnv(missing, dist) ==
    [project_dir    |-> TRUE,
     project_exists |-> missing # "project",
     config_ok      |-> missing # "config",
     backend_dir    |-> missing # "backend",
     frontend_dir   |-> missing # "frontend",
     compose_file   |-> missing # "compose",
     dist           |-> dist,
     artifact       |-> "old",
     services       |-> "down",
     head           |-> [backend |-> "c0", frontend |-> "c0"]]

ProjectConfig(stack) ==
    [stack       |-> stack,
     last_deploy |-> NoTime,
     git_commits |-> [backend |-> "c0", frontend |-> "c0"]]

DeployIdle(missing, dist, stack) ==
    /\ pc = "idle"
    /\ opts = NoOptions
    /\ env = ProjectEnv(missing, dist)
    /\ cfg = ProjectConfig(stack)
    /\ loc = NoLocals
    /\ executed = <<>>
    /\ run = [history |-> <<>>, cfg |-> ProjectConfig(stack),
              env |-> ProjectEnv(missing, dist),
              failed |-> None, crash |-> None, pull_failed |-> {},
              warned |-> {}]

BackupIdle == /\ pm = PortsIdle /\ hw = HealthIdle
              /\ fs = [l \in Locations |-> NoProject]
              /\ snaps = <<>>
              /\ cb = NoCall
              /\ calls = 0
              /\ ret = NoReturn

\* sample trees of the two components
BackendTree ==
    {Root,
     File(<<"artisan">>, "b1"),
     File(<<".env">>, "APP_KEY"),
     File(<<"app", "Http.php">>, "b2"),
     File(<<"vendor", "autoload.php">>, "b3"),
     File(<<"storage", "logs", "app.log">>, "b4")}

FrontendTree ==
    {Root,
     File(<<"package.json">>, "f1"),
     File(<<"src", "main.js">>, "f2"),
     File(<<"dist", "index.html">>, "f3"),
     File(<<".env">>, "VITE_KEY")}

ProjectFiles ==
    {File(<<"docker-compose.yml">>, "p1"),
     File(<<".project-config.json">>, "p2"),
     File(<<"deploy-history.json">>, "p3")}

\* the active project: with both components, or with neither left
ProjectDirs ==
    {[exists |-> TRUE, backend |-> BackendTree, frontend |-> FrontendTree,
      files |-> ProjectFiles],
     [exists |-> TRUE, backend |-> NoDir, frontend |-> NoDir,
      files |-> ProjectFiles]}

\* a restore target: not there yet, empty, or holding other files
Targets ==
    {NoProject,
     [NoProject EXCEPT !.exists = TRUE],
     [exists |-> TRUE, backend |-> {Root, File(<<"old.php">>, "o1")},
      frontend |-> NoDir, files |-> {File(<<"nginx.conf">>, "o2")}]}

InitBackup ==
    /\ now = 0
    /\ second = 0
    /\ HistoryIdle
    /\ pc = "idle" /\ opts = NoOptions /\ loc = NoLocals /\ executed = <<>>
    /\ \E stack \in {"laravel-vue"} :
         /\ cfg = ProjectConfig(stack)
         /\ env = [ProjectEnv("nothing", FALSE) EXCEPT !.services = "up"]
         /\ run = [history |-> <<>>, cfg |-> ProjectConfig(stack),
                   env |-> ProjectEnv("nothing", FALSE),
                   failed |-> None, crash |-> None, pull_failed |-> {},
                   warned |-> {}]
    /\ \E p \in ProjectDirs, t \in Targets :
         fs = [l \in Locations |-> IF l = "project" THEN p ELSE t]
    /\ snaps = <<>>
    /\ cb = NoCall
    /\ calls = 0
    /\ ret = NoReturn
    /\ pm = PortsIdle /\ hw = HealthIdle /\ prj = ProjectIdle

NextBackup ==
    \/ CreateBackupStart \/ CopyBackend \/ CopyFrontend \/ CopyConfig
    \/ BackupDatabase \/ WriteMetadata \/ CreateBackupReturn
    \/ CreateBackupExcept \/ CreateBackupInterrupt \/ ListBackups \/ RestoreBackup
    \/ BackupRestoreCommand \/ DeleteBackup \/ Tick

SpecBackup == InitBackup /\ [][NextBackup]_vars

\* The backups directory as earlier create_backup calls left it.  FirstIn
\* names, for each second, the label whose snapshot was made first in it;
\* the metadata of a snapshot carries the instant of its _create_metadata.
AllIds == {backup_id(t, name) : t \in 0..MaxTime, name \in Labels}

CaptureInstant(id, FirstIn) ==
    2 * id.ts + (IF id.name = FirstIn[id.ts] THEN 0 ELSE 1)

\* a directory create_backup completed without a dump, and one it was
\* interrupted in before the metadata was written
CompleteSnapshot(id, FirstIn) ==
    [EmptySnapshot EXCEPT
        !.meta = [NoMeta EXCEPT !.written = TRUE, !.backup_id = id,
                                !.custom_name = id.name,
                                !.timestamp = CaptureInstant(id, FirstIn),
                                !.project = [stack |-> "laravel-vue"]],
        !.done = {"backend", "frontend", "config", "db"}]

InterruptedSnapshot == EmptySnapshot

PriorSnapshots ==
    {[id \in present |->
         IF id \in whole THEN CompleteSnapshot(id, FirstIn)
                         ELSE InterruptedSnapshot] :
       <<present, whole, FirstIn>> \in
          {<<p, w, f>> \in (SUBSET AllIds) \X (SUBSET AllIds)
                            \X [0..MaxTime -> Labels] : w \subseteq p}}

InitRetention ==
    /\ now = 2 * (MaxTime + 1)
    /\ second = MaxTime
    /\ HistoryIdle
    /\ pc = "idle" /\ opts = NoOptions /\ loc = NoLocals /\ executed = <<>>
    /\ cfg = ProjectConfig("laravel-vue")
    /\ env = [ProjectEnv("nothing", FALSE) EXCEPT !.services = "up"]
    /\ run = [history |-> <<>>, cfg |-> ProjectConfig("laravel-vue"),
              env |-> ProjectEnv("nothing", FALSE),
              failed |-> None, crash |-> None, pull_failed |-> {},
              warned |-> {}]
    /\ fs = [l \in Locations |-> NoProject]
    /\ snaps \in PriorSnapshots
    /\ cb = NoCall
    /\ calls = 0
    /\ ret = NoReturn
    /\ pm = PortsIdle /\ hw = HealthIdle /\ prj = ProjectIdle

NextRetention == CleanupOldBackups \/ DeleteBackup

SpecRetention == InitRetention /\ [][NextRetention]_vars

InitPorts ==
    /\ now = 0
    /\ second = 0
    /\ HistoryIdle
    /\ DeployIdle("nothing", FALSE, "laravel-vue")
    /\ BackupIdle /\ prj = ProjectIdle

NextPorts == CheckAndSuggestPorts \/ SuggestAlternativePort

SpecPorts == InitPorts /\ [][NextPorts]_vars

\* the same call on a host where other processes bind and release ports
NextPortsRace == CheckFirstProbe \/ OtherProcess \/ CheckSearch

SpecPortsRace == InitPorts /\ [][NextPortsRace]_vars

\* the loop runs in the calling thread and every call in it returns, so a
\* step that is enabled is taken
InitHealth == InitPorts

NextHealth == WaitForHealthy \/ LoopCondition \/ ContainerHealth \/ Sleep

SpecHealth == InitHealth /\ [][NextHealth]_vars /\ WF_vars(NextHealth)

\* the same call with a user who may interrupt it
NextHealthSignal == NextHealth \/ Interrupt

SpecHealthSignal == InitHealth /\ [][NextHealthSignal]_vars

InitHistory ==
    /\ now = 0
    /\ second = 0
    /\ HistoryIdle
    /\ DeployIdle("nothing", FALSE, "laravel-vue")
    /\ BackupIdle /\ prj = ProjectIdle

NextHistory == AddDeploy \/ CleanupOldEntries

SpecHistory == InitHistory /\ [][NextHistory]_vars

\* the history a project has when the command starts: none yet, or the
\* entry of one earlier deploy
PriorHistories ==
    {<<>>,
     <<[id |-> 1, type |-> "deploy", timestamp |-> 0, success |-> TRUE,
        commits |-> [backend |-> "c0", frontend |-> "c0"],
        options |-> NoOptions, error |-> None]>>}

InitDeploy ==
    /\ now = 1
    /\ second = 0
    /\ history \in PriorHistories
    /\ histRet = [op |-> None, before |-> <<>>,
                  keep_count |-> None, value |-> 0]
    /\ \E missing \in Missing, dist \in BOOLEAN, stack \in Stacks :
         DeployIdle(missing, dist, stack)
    /\ BackupIdle /\ prj = ProjectIdle

NextDeploy ==
    \/ DeployStart \/ PreFlight \/ Backup \/ Sync \/ Deps \/ Build \/ Place
    \/ ServicesUp \/ HealthWait \/ Migrate \/ Seed \/ Optimize \/ Verify
    \/ UpdateConfig \/ RecordHistory

SpecDeploy == InitDeploy /\ [][NextDeploy]_vars

\* no project yet, or a project that earlier init and deploy commands left;
\* then init and destroy commands in any order
InitProject ==
    /\ now = 1
    /\ second = 0
    /\ histRet = [op |-> None, before |-> <<>>,
                  keep_count |-> None, value |-> 0]
    /\ pc = "idle" /\ opts = NoOptions /\ loc = NoLocals /\ executed = <<>>
    /\ run = [history |-> <<>>, cfg |-> NoConfig, env |-> NoProjectEnv,
              failed |-> None, crash |-> None, pull_failed |-> {},
              warned |-> {}]
    /\ \/ /\ env = NoProjectEnv
          /\ cfg = NoConfig
          /\ history = <<>>
          /\ prj = ProjectIdle
       \/ \E stack \in Stacks, dist \in BOOLEAN, services \in {"up", "down"} :
            /\ env = [ProjectEnv("nothing", dist) EXCEPT
                        !.services = services]
            /\ history \in PriorHistories
            /\ cfg = [ProjectConfig(stack) EXCEPT
                        !.last_deploy = IF history = <<>> THEN NoTime
                                        ELSE history[Len(history)].timestamp]
            /\ prj = [ProjectIdle EXCEPT !.active = {0}]
    /\ BackupIdle

NextProject == InitCommand \/ DestroyCommand

SpecProject == InitProject /\ [][NextProject]_vars

(***************************************************************************)
(* Properties                                                              *)
(***************************************************************************)
Range(s) == {s[i] : i \in 1..Len(s)}

\* the stages in the order the command runs them
StageOrder ==
    <<"preflight", "backup", "sync", "deps", "build", "place", "up", "health",
      "migrate", "seed", "config:cache", "route:cache", "view:cache",
      "verify", "update", "record">>

StageIndex(st) == CHOOSE i \in 1..Len(StageOrder) : StageOrder[i] = st

LaterStages(st) ==
    {StageOrder[i] : i \in (StageIndex(st) + 1)..Len(StageOrder)}

\* the fail-fast stages after pre-flight
FailFastStages == {"deps", "build", "up", "migrate"}

\* C1: every run, completed or aborted by a fail-fast stage, leaves exactly
\* one new entry in the history: its length is the length at start plus 1.
C1_OneRecordPerRun ==
    (pc = "done" \/ (pc = "aborted" /\ run.failed \in FailFastStages))
        => Len(history) = Len(run.history) + 1

\* C2: a run aborted by a fail-fast stage has appended an entry with
\* success = false that carries the error text.
C2_AbortRecorded ==
    (pc = "aborted" /\ run.failed \in FailFastStages)
        => /\ history # run.history
           /\ SubSeq(history, 1, Len(run.history)) = run.history
           /\ history[Len(history)].success = FALSE
           /\ history[Len(history)].error # None

\* C3: once a fail-fast stage has failed the command has ended: the failed
\* stage is the last one executed, no later stage has run, and the persisted
\* project configuration is the one the run started with.
C3_FailFastStops ==
    run.failed \in FailFastStages
        => /\ pc = "aborted"
           /\ executed # <<>>
           /\ executed[Len(executed)] = run.failed
           /\ Range(executed) \cap LaterStages(run.failed) = {}
           /\ cfg = run.cfg

C3_Witness ==
    /\ pc = "aborted"
    /\ run.failed = "migrate"
    /\ "up" \in Range(executed)
    /\ run.pull_failed = {}

\* C4: a run in which the pull of a component failed, and no fail-fast stage
\* failed, is not aborted: it runs the state update and the history
\* recording, and the stored commit of the component whose pull failed is
\* the one stored before the run.
C4_PullFailureContinues ==
    (pc \in Terminal /\ run.pull_failed # {} /\ run.failed = None
       /\ run.crash # "subprocess")
        => /\ pc = "done"
           /\ {"update", "record"} \subseteq Range(executed)
           /\ Len(history) = Len(run.history) + 1
           /\ \A c \in run.pull_failed :
                cfg.git_commits[c] = run.cfg.git_commits[c]

\* C9: the ids stored in the history are dense: the entry at position i has
\* id i, so N entries carry exactly the ids 1..N in increasing order.
C9_IdsDense == \A i \in 1..Len(history) : history[i].id = i

C9_Witness ==
    /\ histRet.op = "cleanup_old_entries"
    /\ histRet.value > 0
    /\ Len(history) >= 2

NotIgnored(tree, component) ==
    {f \in tree : ~Ignored(f.path, PatternsOf(component))}

PayloadSteps == {"backend", "frontend", "config", "db"}

C6_FailedCreateRestoresListing ==
    [][(cb.pc = "except" /\ cb'.pc = "idle") => list_backups' = cb.before]_vars

\* C7: a restore of an id whose directory or metadata file is absent
\* returns False, changes no file of any target, stops no service and runs
\* no database restore.
C7_RestoreRefusesCorrupted ==
    [][(calls' = calls + 1 /\ ret'.op = "restore_backup"
          /\ ~(ret'.id \in DOMAIN snaps /\ snaps[ret'.id].meta.written))
        => /\ ~ret'.success
           /\ ~ret'.db_invoked
           /\ fs' = fs
           /\ env' = env]_vars

C7_Witness ==
    /\ ret.op = "restore_backup"
    /\ ~ret.success
    /\ ret.id \in DOMAIN snaps
    /\ ~snaps[ret.id].meta.written
    /\ snaps[ret.id].backend # NoDir

\* a target with no component tree and no file in it
CleanTarget(dir) ==
    dir.backend = NoDir /\ dir.frontend = NoDir /\ dir.files = {}

\* C8: restore_backup of the snapshot the create_backup just before it made,
\* into a clean target, leaves there component trees equal to the project's
\* on every path the ignore-list does not name, and the backend's .env
\* under its own name.
C8_RoundTrip ==
    [][(/\ ret.op = "create_backup" /\ ret.success
        /\ calls' = calls + 1
        /\ ret'.op = "restore_backup" /\ ret'.id = ret.id
        /\ ret'.target = "scratch"
        /\ CleanTarget(fs["scratch"]))
       => /\ \A c \in Components :
               NotIgnored(fs'["scratch"][c], c)
                   = NotIgnored(fs["project"][c], c)
          /\ BackendEnv(fs'["scratch"].backend)
                   = BackendEnv(fs["project"].backend)]_vars

C8_Witness ==
    /\ ret.op = "restore_backup"
    /\ ret.success
    /\ ret.target = "scratch"
    /\ fs["project"].backend = BackendTree
    /\ fs["scratch"].backend =
          copytree(BackendTree, BackendPatterns) \cup BackendEnv(BackendTree)
    /\ fs["scratch"].frontend = copytree(FrontendTree, FrontendPatterns)
    /\ \A f \in fs["scratch"].files : f.data # "o2"

\* C11: cleanup_old_entries(N), N >= 0, on a history of M > N entries leaves
\* exactly the last N entries of it, numbered 1..N, returns M - N, and every
\* kept entry is newer than every discarded one.
C11_CleanupKeepsNewest ==
    (/\ histRet.op = "cleanup_old_entries"
     /\ histRet.keep_count >= 0
     /\ Len(histRet.before) > histRet.keep_count)
    => LET M == Len(histRet.before)
           N == histRet.keep_count
       IN  /\ Len(history) = N
           /\ histRet.value = M - N
           /\ \A i \in 1..Len(history) :
                 /\ M - N + i \in 1..M
                 /\ history[i] = [histRet.before[M - N + i] EXCEPT !.id = i]
           /\ \A i \in 1..Len(history) : \A j \in 1..(M - N) :
                 history[i].timestamp > histRet.before[j].timestamp

\* one call of cleanup_old_backups(N), N >= 0, on M > N directories
CleanupCall(N, M) ==
    /\ calls' = calls + 1
    /\ ret'.op = "cleanup_old_backups"
    /\ ret'.keep_count = N
    /\ N >= 0
    /\ Cardinality(DOMAIN snaps) = M
    /\ M > N

Corrupted(dirs) == {id \in DOMAIN dirs : ~dirs[id].meta.written}

\* C13: cleanup_old_backups(N) on M > N directories, one of them at least
\* corrupted, deletes M - N of them and returns M - N; a corrupted directory
\* is deleted, and no directory with a timestamp is deleted while a
\* corrupted one is kept.
C13_CorruptedDeletedFirst ==
    [][\A N \in 0..MaxKeep : \A M \in 0..Cardinality(AllIds) :
          (CleanupCall(N, M) /\ Corrupted(snaps) # {})
          => LET deleted == DOMAIN snaps \ DOMAIN snaps'
             IN  /\ DOMAIN snaps' \subseteq DOMAIN snaps
                 /\ Cardinality(deleted) = M - N
                 /\ ret'.value = M - N
                 /\ deleted \cap Corrupted(snaps) # {}
                 /\ (deleted \ Corrupted(snaps) # {}
                       => Corrupted(snaps) \subseteq deleted)]_vars

\* a call of check_and_suggest_ports that has returned its two results
Resolved == pm.op = "check_and_suggest_ports" /\ ~pm.raised

Injective(f) == \A a, b \in DOMAIN f : f[a] = f[b] => a = b

\* C14: for a desired map with pairwise distinct ports, the map that
\* check_and_suggest_ports returns gives no two services the same port.
C14_PortsInjective ==
    (Resolved /\ Injective(pm.desired_ports)) => Injective(pm.final_ports)

\* the warning of check_and_suggest_ports that names the service and says
\* that no alternative was found
WarnedNoAlternative(service) ==
    \E i \in 1..Len(pm.warnings) :
        /\ pm.warnings[i].service = service
        /\ pm.warnings[i].text = "no_alternative"

\* C15: a service whose resolved port was bound when it was probed has a
\* warning that the port is occupied and no alternative was found.
C15_BoundPortWarned ==
    Resolved =>
        \A s \in DOMAIN pm.final_ports :
            pm.final_ports[s] \in pm.bound => WarnedNoAlternative(s)

C15_Witness ==
    /\ Resolved
    /\ "http" \in DOMAIN pm.final_ports
    /\ pm.final_ports["http"] = MaxPortNumber
    /\ MaxPortNumber \in pm.bound
    /\ WarnedNoAlternative("http")

\* a call of suggest_alternative_port that has returned
Suggested == pm.op = "suggest_alternative_port" /\ ~pm.raised

\* desiredPort+1 .. min(desiredPort+maxAttempts, 65535)
AboveDesired ==
    (pm.desired_port + 1)..
        (IF pm.desired_port + pm.max_attempts > MaxPortNumber
         THEN MaxPortNumber ELSE pm.desired_port + pm.max_attempts)

\* the first free port above the desired one is returned, or none
FirstFreeAbove ==
    LET free == {q \in AboveDesired : q \notin pm.bound}
    IN  /\ pm.probed \ {pm.desired_port} \subseteq AboveDesired
        /\ IF free = {}
           THEN pm.value = NoPort
           ELSE /\ pm.value \in free
                /\ \A q \in free : pm.value <= q
                /\ pm.probed \ {pm.desired_port}
                       = (pm.desired_port + 1)..pm.value

C17_InvalidPortRejected ==
    pm.op = "check_and_suggest_ports" =>
        \A s \in DOMAIN pm.desired_ports :
            (pm.desired_ports[s] < 1 \/ pm.desired_ports[s] > MaxPortNumber)
            => /\ pm.desired_ports[s] \notin pm.probed
               /\ ~(/\ s \in DOMAIN pm.final_ports
                    /\ pm.final_ports[s] = pm.desired_ports[s])

\* C18: the map check_and_suggest_ports returns has the services of the
\* desired map, no more and no fewer.
C18_SameServices ==
    Resolved => DOMAIN pm.final_ports = DOMAIN pm.desired_ports

C18_Witness ==
    /\ Resolved
    /\ DOMAIN pm.final_ports = Services
    /\ WarnedNoAlternative("https")
    /\ \E i \in 1..Len(pm.warnings) :
          pm.warnings[i].service = "http" /\ pm.warnings[i].text = "using"

\* the first stage the command can still execute at each of its positions
FirstStageAt(position) ==
    IF position = "optimize" THEN StageIndex("config:cache")
    ELSE IF position \in Range(StageOrder) THEN StageIndex(position)
    ELSE Len(StageOrder) + 1

\* C19: the stages a run has executed appear in the order PreFlight, Backup,
\* Sync, Deps, Build, Place, ServicesUp, HealthWait, Migrate, Seed, Optimize,
\* Verify, state update, RecordHistory, each at most once; every executed
\* stage precedes the position of the command, and a run that is done has
\* executed RecordHistory last.
C19_StagesInOrder ==
    /\ \A i, j \in 1..Len(executed) :
          i < j => StageIndex(executed[i]) < StageIndex(executed[j])
    /\ pc # "idle" =>
          \A i \in 1..Len(executed) :
              StageIndex(executed[i]) < FirstStageAt(pc)
    /\ pc = "done" => /\ executed # <<>>
                      /\ executed[Len(executed)] = "record"

C19_Witness ==
    /\ pc = "done"
    /\ executed = StageOrder

\* C20: a run whose pre-flight found the project, its configuration, a
\* component directory or the compose file missing is aborted having
\* executed nothing but pre-flight, with the project on disk, the persisted
\* configuration and the history as they were at the start.
C20_PreflightFailureNoEffect ==
    (/\ pc \notin {"idle", "preflight"}
     /\ ~(/\ run.env.project_exists /\ run.env.config_ok
          /\ run.env.backend_dir /\ run.env.frontend_dir
          /\ run.env.compose_file))
    => /\ pc = "aborted"
       /\ run.failed = "preflight"
       /\ executed = <<"preflight">>
       /\ env = run.env
       /\ cfg = run.cfg
       /\ history = run.history

C20_Witness ==
    /\ pc = "aborted"
    /\ run.failed = "preflight"
    /\ ~run.env.compose_file
    /\ run.env.dist

\* C21: the entry a completed run records has success = true exactly when
\* the verification stage found every service running.
C21_VerifyDowngradesSuccess ==
    (pc = "done" /\ "verify" \in Range(executed))
        => /\ history # <<>>
           /\ history[Len(history)].success = loc.all_running

\* C22: a run with the with-backup flag that has passed pre-flight and the
\* backup stage has started a create_backup before the source sync.
C22_BackupAttempted ==
    (/\ opts.with_backup
     /\ pc \notin {"idle", "preflight", "backup"}
     /\ run.failed # "preflight")
    => /\ "backup" \in Range(executed)
       /\ calls > 0

\* C23: a run with the skip-build flag on a project that has no dist output
\* executes neither the build nor the placement stage, leaves the placed
\* artifact and the frontend as they were, and goes on to bring the services
\* up unless pre-flight or the dependency stage ended it.
C23_SkipBuildSkipsPlace ==
    (opts.no_build /\ ~run.env.dist /\ pc # "idle")
    => /\ "build" \notin Range(executed)
       /\ "place" \notin Range(executed)
       /\ env.artifact = run.env.artifact
       /\ env.dist = run.env.dist
       /\ (pc \in Terminal /\ run.failed \notin {"preflight", "deps"})
             => "up" \in Range(executed)

C23_Witness ==
    /\ opts.no_build
    /\ ~run.env.dist
    /\ pc = "done"
    /\ "up" \in Range(executed)
    /\ "deps" \in Range(executed)

\* the stages and sub-steps whose failure is only a warning: the backend
\* dependency tool, the seeders, the three cache commands
WarnStages == {"deps", "seed", "config:cache", "route:cache", "view:cache"}

\* C24: the step in which a warn-and-continue stage fails, and no fail-fast
\* stage with it, leaves the command running; a run with such a failure, in
\* which no fail-fast stage and no pull failed, ends done, having executed
\* all three cache sub-steps, the state update and the history recording.
C24_WarnStagesContinue ==
    [][/\ (/\ run'.warned \cap WarnStages # run.warned \cap WarnStages
           /\ run'.failed = None)
          => pc' \notin Terminal
       /\ (/\ run'.warned \cap WarnStages # {}
           /\ pc' \in Terminal
           /\ run'.failed = None
           /\ run'.pull_failed = {})
          => /\ pc' = "done"
             /\ {"update", "record"} \subseteq Range(executed')
             /\ (cfg'.stack = "laravel-vue"
                   => Range(OptimizeCommands) \subseteq Range(executed'))]_vars

C24_Witness ==
    /\ pc = "done"
    /\ {"deps", "seed", "route:cache"} \subseteq run.warned
    /\ "config:cache" \notin run.warned
    /\ "view:cache" \in Range(executed)

\* C25: the step in which the health wait times out goes on to the
\* migration stage, which is the next stage executed.
C25_TimeoutContinues ==
    [][/\ (pc = "health" /\ "health" \in run'.warned) => pc' = "migrate"
       /\ ("health" \in run'.warned /\ pc' # "migrate")
             => \E i \in 1..(Len(executed') - 1) :
                   executed'[i] = "health" /\ executed'[i + 1] = "migrate"]_vars

C25_Witness ==
    /\ pc = "done"
    /\ "health" \in run.warned
    /\ "migrate" \in Range(executed)

\* C26: the step of create_backup in which the dump fails goes on to the
\* metadata step, and a create_backup that asked for a dump, got none and
\* returns success leaves its directory with a metadata file in which
\* database_backup is false and database_backup_file is empty.
C26_DumpFailureStillSucceeds ==
    [][/\ (/\ cb.pc = "db" /\ cb.include_db
           /\ cb'.pc \notin {"idle", "db"} /\ cb'.db_backup_file = None)
          => cb'.pc = "meta"
       /\ (/\ cb.pc = "return" /\ cb.include_db /\ cb.db_backup_file = None
           /\ ret'.op = "create_backup")
          => /\ ret'.success
             /\ ret'.id \in DOMAIN snaps'
             /\ snaps'[ret'.id].meta.written
             /\ ~snaps'[ret'.id].meta.database_backup
             /\ snaps'[ret'.id].meta.database_backup_file = None]_vars

C26_Witness ==
    /\ ret.op = "create_backup"
    /\ ret.success
    /\ ret.id \in DOMAIN snaps
    /\ snaps[ret.id].db_file = "empty"
    /\ snaps[ret.id].meta.written
    /\ ~snaps[ret.id].meta.database_backup

\* C27: in the list list_backups returns, of any two snapshots that have
\* metadata the one listed first has the strictly later capture timestamp.
C27_ListedNewestFirst ==
    \A i, j \in 1..Len(list_backups) :
        (/\ i < j
         /\ ~list_backups[i].corrupted
         /\ ~list_backups[j].corrupted)
        => list_backups[i].timestamp > list_backups[j].timestamp

\* what a snapshot directory holds on disk
Contents(dir) ==
    [backend |-> dir.backend, frontend |-> dir.frontend, files |-> dir.files,
     db_file |-> dir.db_file, meta |-> dir.meta]

\* C29: a snapshot whose metadata has been written is still there with the
\* same contents after every step that is not the return of delete_backup
\* or cleanup_old_backups.
C29_CompletedSnapshotReadOnly ==
    [][\A id \in DOMAIN snaps :
          snaps[id].meta.written
          => \/ /\ id \in DOMAIN snaps'
                /\ Contents(snaps'[id]) = Contents(snaps[id])
             \/ ret'.op \in {"delete_backup", "cleanup_old_backups"}]_vars

\* C30: a run with skip-deps and without skip-build that got past the build
\* stage has executed the build and has not crashed.
C30_SkipDepsStillBuilds ==
    (/\ opts.no_deps /\ ~opts.no_build
     /\ pc \notin {"idle", "preflight", "backup", "sync", "deps", "build"}
     /\ run.failed \notin {"preflight"})
    => /\ "build" \in Range(executed)
       /\ run.crash = None

\* the call has returned False for a container that never became healthy
TimedOut == hw.pc = "returned" /\ hw.never_healthy /\ ~hw.result

\* C28 as stated: for a container that is never healthy, wait_for_healthy
\* returns False, not before the timeout and not later than the timeout.
C28_ReturnsFalseAtTimeout ==
    (hw.pc = "returned" /\ hw.never_healthy)
    => /\ ~hw.result
       /\ hw.elapsed >= hw.timeout
       /\ hw.elapsed <= hw.timeout

\* C28: for a container that is never healthy, wait_for_healthy returns,
\* returns False, not before the timeout, and less than one poll interval
\* plus the time of its last health query after the timeout.
C28_ReturnsFalseWithinPollOfTimeout ==
    /\ [](hw.pc = "returned" /\ hw.never_healthy
            => /\ ~hw.result
               /\ hw.elapsed >= hw.timeout
               /\ hw.elapsed < hw.timeout + PollInterval + hw.last_probe)
    /\ <>(hw.pc = "returned")

C28_Witness ==
    /\ TimedOut
    /\ hw.elapsed > hw.timeout

\* C31: a backup-restore command that reached the database restore sub-step
\* reached it with the database service running.
C31_DbRestoreWithServiceRunning ==
    (/\ ret.op = "restore_backup"
     /\ ret.target = "project"
     /\ ret.db_invoked)
    => /\ env.services = "up"
       /\ ~ret.stopped

\* the environment file restore_backup puts into the backend tree
RestoredEnv(snapshot) ==
    {File(EnvPathInTarget, g.data) :
        g \in {f \in snapshot.files : f.path = <<EnvNameInBackup>>}}

\* C32: after a successful restore_backup, for each component the snapshot
\* holds, every file of the target's tree is a file of the snapshot's tree
\* or the restored environment file, and every file of the snapshot's tree
\* is in the target's tree: nothing the target alone held is left.
C32_RestoreReplacesWholesale ==
    [][(calls' = calls + 1 /\ ret'.op = "restore_backup" /\ ret'.success)
       => \A c \in Components :
            LET snapshot == snaps[ret'.id]
                after    == fs'[ret'.target][c]
            IN  snapshot[c] # NoDir
                => /\ \A f \in after :
                        \/ f \in snapshot[c]
                        \/ (c = "backend" /\ f \in RestoredEnv(snapshot))
                   /\ \A f \in snapshot[c] :
                        \/ f \in after
                        \/ (c = "backend" /\ f.path = EnvPathInTarget)]_vars

\* a restore into the active project, whose backend held vendor/ and
\* storage/ files the snapshot does not hold
C32_Witness ==
    /\ ret.op = "restore_backup"
    /\ ret.success
    /\ ret.target = "project"
    /\ snaps[ret.id].backend # NoDir
    /\ fs["project"].backend
          = snaps[ret.id].backend \cup RestoredEnv(snaps[ret.id])
    /\ fs["project"].backend # BackendTree

\* C33: a restore_backup whose database restore sub-step failed returns
\* False to its caller, and leaves in the target the component trees and
\* the configuration files of the snapshot.
C33_DbFailureReported ==
    [][(calls' = calls + 1 /\ ret'.op = "restore_backup" /\ ret'.db_failed)
       => LET snapshot == snaps[ret'.id]
              after    == fs'[ret'.target]
          IN  /\ ~ret'.success
              /\ \A c \in Components : \A f \in snapshot[c] :
                    f \in after[c] \/ f.path = EnvPathInTarget
              /\ \A f \in snapshot.files :
                    f.path[1] \in config_files => f \in after.files]_vars

\* C34: after an add_deploy call the stored history is the history stored
\* before the call with one entry appended.
C34_AddDeployAppendOnly ==
    [][(histRet'.op = "add_deploy" /\ now' = now + 1)
       => /\ Len(history') = Len(history) + 1
          /\ SubSeq(history', 1, Len(history)) = history]_vars

\* C35: a health query that cannot read the status does not end
\* wait_for_healthy: the call sleeps and polls again, never raises, and
\* returns only with healthy observed or with the timeout elapsed.
C35_UnreadableKeepsPolling ==
    /\ [][(hw.pc = "probe" /\ hw'.pc # "probe"
              /\ hw'.last_read \in Unreadable)
          => hw'.pc = "sleep"]_vars
    /\ [](hw.pc # "raised")
    /\ [](hw.pc = "returned"
            => \/ hw.result /\ hw.last_read = "healthy"
               \/ ~hw.result /\ hw.elapsed >= hw.timeout)

C35_Witness ==
    /\ hw.pc = "returned"
    /\ hw.unreadable_seen
    /\ hw.result
    /\ hw.elapsed < hw.timeout

\* the step in which the stop signal arrives
SignalArrives == hw'.signalled /\ ~hw.signalled

C38_AllRunningNeedsStatus ==
    ("verify" \in Range(executed) /\ loc.all_running)
        => loc.services_status = "all_running"

\* C40: a service for which check_and_suggest_ports warns "occupied, using
\* the alternative" is resolved to a port that differs from its desired
\* port, also when the bound ports change during the call.
C40_AlternativeDiffers ==
    Resolved
    => \A i \in 1..Len(pm.warnings) :
          pm.warnings[i].text = "using"
          => pm.final_ports[pm.warnings[i].service] # pm.warnings[i].port

\* C37: at most one project is active, and an init command given while a
\* project is active is refused and changes neither the project's files and
\* services nor its configuration nor its history.
C37_OneActiveProject ==
    /\ [](Cardinality(prj.active) <= 1)
    /\ [][(prj'.inits = prj.inits + 1 /\ env.project_exists)
          => /\ prj'.outcome = "refused"
             /\ env' = env
             /\ cfg' = cfg
             /\ history' = history]_vars

\* init refused on a project that has been deployed and is running
C37_Witness ==
    /\ prj.op = "init"
    /\ prj.outcome = "refused"
    /\ Cardinality(prj.active) = 1
    /\ env.project_exists
    /\ cfg.last_deploy # 0 - 1
    /\ history # <<>>
    /\ env.services = "up"

\* an init command with no failure of its own would succeed, or a destroy
\* command with no failure of its own would
InitCanSucceed ==
    \E stack \in Stacks : init(env, cfg, stack, "none", TRUE).outcome = "ok"
DestroyCanSucceed ==
    destroy(env, cfg, history, TRUE, TRUE, {}).outcome = "ok"

\* C39: in the state a failed init leaves, a later init or a later destroy
\* is able to succeed.
C39_NoStuckStateAfterFailedInit ==
    (prj.op = "init" /\ prj.outcome = "failed")
        => (InitCanSucceed \/ DestroyCanSucceed)

====
